---- MODULE Spec2Model ----
(***************************************************************************)
(* A model of page.js: the Page object of bigpipe, its reset (configure)   *)
(* and its authorization filter (discover).                                *)
(*                                                                         *)
(* JavaScript runs one callback at a time, so a call of configure or       *)
(* discover, up to its return or throw, is one step; the callback of an    *)
(* authorize check that answers later is a step of its own.                *)
(*                                                                         *)
(* discover hands the pagelets to this.async.filter (page.js:92, :111).    *)
(* The filter is the one of async 0.2.x: it calls the iterator for every   *)
(* item in order, each with its own callback; the callback pushes the item *)
(* on the results when it is given a truthy value and then reports to      *)
(* each(), whose per-item callback is wrapped in only_once (it throws      *)
(* "Callback was already called." on a second call) and which calls the    *)
(* final callback when as many items have reported as the array holds.     *)
(* The final callback receives the results sorted by the item's index.     *)
(***************************************************************************)
EXTENDS Integers, Sequences, FiniteSets, TLC

\* ------------------------------------------------------------------ bounds
MaxPagelets == 2
MaxCalls == 2

\* ------------------------------------------------------------------ inputs
\* The requests configure is called with; discover called without an
\* argument receives undefined.
Requests == {"r1", "r2"}
Undefined == "undefined"
NotCalled == "notcalled"

\* Keys of connections, listeners and conditional pagelets the renderer adds.
ConnIds == {"c1"}
ListenerIds == {"l1"}
CondIds == {"p1"}

\* The values of process.env.NODE_ENV the module is loaded with; Undefined
\* when the variable is not set.
NodeEnvs == {Undefined, "development", "Development", "production", "test"}

\* The fields the constructor declares, and fields somebody adds later.
Declared == {"pipe", "connections", "conditional", "disabled", "enabled"}
NewFields == {"state", "cache"}

\* What a pagelet's authorize does. timing: "none" the pagelet has no
\* authorize function, "sync" authorize calls its callback before it
\* returns, "async" it calls it at a later time, "throws" it throws.
\* rule: the answer it gives, "req" meaning that it depends on the request
\* it received (true for r1 only).
Kinds ==
  {[timing |-> "none", rule |-> "true"], [timing |-> "throws", rule |-> "true"],
   [timing |-> "async", rule |-> "req"]}
  \cup [timing : {"sync", "async"}, rule : {"true", "false"}]

PageletSets == UNION {[1..n -> Kinds] : n \in 0..MaxPagelets}

\* An array slot left by delete: the index is gone, the length is not.
Hole == <<0, 0>>

VARIABLES
  pagelets,     \* Page.prototype.pagelets, the page type's pagelet factories
  connections,  \* this.connections, the set of its keys
  conditional,  \* this.conditional
  listeners,    \* the listeners of the EventEmitter the page inherits from
  enabled,      \* this.enabled
  disabled,     \* this.disabled
  calls,        \* one record per discover call: the closure of that call
  env,          \* Page.prototype.env
  sealed,       \* whether Object.seal was applied to the page
  extra,        \* the own fields of the page besides the declared ones
  last          \* what the last step was and did

vars == <<pagelets, connections, conditional, listeners, enabled, disabled, calls,
          env, sealed, extra, last>>

\* What only the constructor and an extension of the object touch.
seal == <<env, sealed, extra>>

\* --------------------------------------------------------------- helpers
\* String.prototype.toLowerCase on the values of NODE_ENV.
toLowerCase(str) ==
  CASE str = "Development" -> "development"
    [] OTHER -> str

\* (process.env.NODE_ENV || 'development').toLowerCase()
envOf(nodeEnv) == toLowerCase(IF nodeEnv = Undefined THEN "development" ELSE nodeEnv)

\* The constructor seals the page with env compared the wrong way round.
sealsPage_inverted(e) == "development" # e

\* 'development' === this.env: the constructor seals the page.
sealsPage(e) == "development" = e

Range(s) == {s[k] : k \in 1..Len(s)}

\* The keys for..in enumerates on an array: the indices that are not holes.
Keys(arr) == {k \in 1..Len(arr) : arr[k] # Hole}

\* delete arr[key] for every key of ks: the slot becomes a hole.
DeleteKeys(arr, ks) == [k \in 1..Len(arr) |-> IF k \in ks THEN Hole ELSE arr[k]]

\* Array.prototype.indexOf: the 0-based first index, -1 when absent.
indexOf(arr, x) ==
  IF x \in Range(arr)
    THEN (CHOOSE k \in 1..Len(arr) : arr[k] = x /\ \A j \in 1..(k - 1) : arr[j] # x) - 1
    ELSE -1

\* The pagelet instance discover call c allocates for factory i.
Instance(c, i) == <<c, i>>

\* allocate walking the factories from the last to the first.
allocate_reversed(c, n) == [i \in 1..n |-> Instance(c, n + 1 - i)]

\* allocate: Pagelet.alloc().configure(page) for every factory, in order.
allocate(c, n) == [i \in 1..n |-> Instance(c, i)]

\* The answer of an authorize check that received request r.
answer(kind, r) ==
  CASE kind.rule = "true" -> TRUE
    [] kind.rule = "false" -> FALSE
    [] kind.rule = "req" -> r = "r1"

\* results.sort by index, then map to the values: indices in ascending order,
\* each as often as it was pushed.
RECURSIVE sortByIndex(_, _, _)
sortByIndex(results, i, n) ==
  IF i > n THEN <<>>
  ELSE SelectSeq(results, LAMBDA x : x = i) \o sortByIndex(results, i + 1, n)

\* ---------------------------------------------------------------- discover
\* The fields of the page object a call can reach through `page`.
PageFields == {"connections", "conditional", "listeners", "enabled", "disabled"}

\* What a call leaves behind besides its closure and the page: the events it
\* emitted on the page and the order of its steps.
Observed == {"emitted", "trace"}

\* One step of a call, for the order of the steps.
Step(what, i) == <<what, i>>

\* The steps of allocate: every pagelet is allocated, then bound to the page
\* by configure(page), in the order of the array map returns.
allocation(c, n) ==
  [k \in 1..(2 * n) |->
     IF k % 2 = 1 THEN Step("alloc", allocate(c, n)[(k + 1) \div 2][2])
     ELSE Step("bind", allocate(c, n)[k \div 2][2])]

\* The closure of discover call c together with the page it works on.
NewCall(c, arg, n, page) ==
  [c |-> c, arg |-> arg, n |-> n,
   connections |-> page.connections, conditional |-> page.conditional,
   listeners |-> page.listeners,
   enabled |-> page.enabled, disabled |-> page.disabled,
   emitted |-> <<>>, trace |-> allocation(c, n),
   evaluated |-> {}, authReq |-> [i \in 1..n |-> NotCalled],
   results |-> <<>>, called |-> {}, completed |-> 0, accepted |-> 0,
   doneCalls |-> [i \in 1..n |-> 0],
   pending |-> {}, settled |-> {}, threw |-> "no"]

\* The filter predicate of page.disabled: !!allowed.indexOf(pagelet).
disabledFilter(allowed, pagelet) == indexOf(allowed, pagelet) # 0

\* acceptance adding the allowed pagelets to page.enabled instead of
\* assigning them.
acceptance_appends(s, allowed) ==
  [s EXCEPT !.enabled = @ \o allowed,
            !.disabled = SelectSeq(allocate(s.c, s.n),
                                   LAMBDA p : disabledFilter(allowed, p)),
            !.accepted = @ + 1,
            !.trace = Append(@, Step("acceptance", 0))]

\* acceptance announcing the result with page.emit('discover').
acceptance_emits(s, allowed) ==
  [s EXCEPT !.enabled = allowed,
            !.disabled = SelectSeq(allocate(s.c, s.n),
                                   LAMBDA p : disabledFilter(allowed, p)),
            !.accepted = @ + 1,
            !.emitted = Append(@, "discover"),
            !.trace = Append(@, Step("acceptance", 0))]

\* acceptance(allowed): the final callback of the filter.
acceptance(s, allowed) ==
  [s EXCEPT !.enabled = allowed,
            !.disabled = SelectSeq(allocate(s.c, s.n),
                                   LAMBDA p : disabledFilter(allowed, p)),
            !.accepted = @ + 1,
            !.trace = Append(@, Step("acceptance", 0))]

\* done(v): the callback the filter hands to rejection for pagelet i.
done(s, i, v) ==
  LET s1 == [s EXCEPT !.results = IF v THEN Append(@, i) ELSE @,
                      !.doneCalls = [@ EXCEPT ![i] = @ + 1],
                      !.trace = Append(@, Step("done", i))]
  IN IF i \in s1.called
       THEN [s1 EXCEPT !.threw = "callback"]
       ELSE LET s2 == [s1 EXCEPT !.called = @ \cup {i}, !.completed = @ + 1]
                sorted == sortByIndex(s2.results, 1, s2.n)
            IN IF s2.completed >= s2.n
                 THEN acceptance(s2, [k \in 1..Len(sorted) |-> Instance(s2.c, sorted[k])])
                 ELSE s2

\* pagelet.authorize(req, done) of pagelet i.
authorize(s, i, r) ==
  LET kind == pagelets[i]
      s1 == [s EXCEPT !.authReq = [@ EXCEPT ![i] = r],
                      !.trace = Append(@, Step("authorize", i))]
  IN CASE kind.timing = "sync" ->
            done([s1 EXCEPT !.settled = @ \cup {i}], i, answer(kind, r))
       [] kind.timing = "async" -> [s1 EXCEPT !.pending = @ \cup {i}]
       [] kind.timing = "throws" ->
            [s1 EXCEPT !.settled = @ \cup {i}, !.threw = "authorize"]

\* rejection with a pagelet that has no authorize function reported as
\* rejected.
rejection_denies(s, i) ==
  LET s0 == [s EXCEPT !.evaluated = @ \cup {i}]
  IN IF pagelets[i].timing # "none"
       THEN LET s1 == authorize(s0, i, s0.arg)
            IN IF s1.threw # "no" THEN s1 ELSE done(s1, i, TRUE)
       ELSE done(s0, i, FALSE)

\* rejection(pagelet, done): the iterator of the filter.
rejection(s, i) ==
  LET s0 == [s EXCEPT !.evaluated = @ \cup {i}]
  IN IF pagelets[i].timing # "none"
       THEN LET s1 == authorize(s0, i, s0.arg)
            IN IF s1.threw # "no" THEN s1 ELSE done(s1, i, TRUE)
       ELSE done(s0, i, TRUE)

\* each(): the iterator is called for the items in order; a throw ends it.
RECURSIVE each(_, _)
each(s, i) ==
  IF i > s.n THEN s
  ELSE LET s1 == rejection(s, i)
       IN IF s1.threw # "no" THEN s1 ELSE each(s1, i + 1)

\* discover(req), as call number c.
discover(c, arg, page) ==
  LET s == NewCall(c, arg, Len(pagelets), page)
  IN IF s.n = 0 THEN acceptance(s, <<>>) ELSE each(s, 1)

\* --------------------------------------------------------------- configure
\* The reset phase without this.removeAllListeners().
reset_keepsListeners(conn, cond, lis, en, dis) ==
  LET en1 == DeleteKeys(en, Keys(en))
      en2 == DeleteKeys(en1, Keys(dis))
  IN [connections |-> {}, conditional |-> <<>>, listeners |-> lis,
      enabled |-> en2, disabled |-> dis]

\* The reset phase of configure: the fields of the page after it.
reset(conn, cond, lis, en, dis) ==
  LET en1 == DeleteKeys(en, Keys(en))
      en2 == DeleteKeys(en1, Keys(dis))
  IN [connections |-> {}, conditional |-> <<>>, listeners |-> {},
      enabled |-> en2, disabled |-> dis]

\* configure(req, res): the reset phase, then this.discover(), then
\* return this unless discover threw.
configure(c, req, conn, cond, lis, en, dis) ==
  LET r == reset(conn, cond, lis, en, dis)
      call == discover(c, Undefined, r)
  IN [page |-> r,
      call |-> call,
      trace |-> <<Step("reset", 0)>> \o call.trace
                \o <<Step(IF call.threw = "no" THEN "return" ELSE "throw", 0)>>]

\* ------------------------------------------------------------------- steps
\* What the last step was: its operation, the discover call it belongs to,
\* the request it was given, whether acceptance ran in it, what it threw,
\* the fields of the page when it began and at the end of its reset phase,
\* the events it emitted on the page and the order of its steps.
NoPage == [connections |-> {}, conditional |-> <<>>, listeners |-> {},
           enabled |-> <<>>, disabled |-> <<>>]

NoLast == [op |-> "new", call |-> 0, req |-> Undefined, accepted |-> FALSE,
           threw |-> "no", before |-> NoPage, atReset |-> NoPage,
           emitted |-> <<>>, trace |-> <<>>]

\* The page as it is now.
ThisPage == [connections |-> connections, conditional |-> conditional,
             listeners |-> listeners, enabled |-> enabled, disabled |-> disabled]

\* new Page(pipe), in a process started with NODE_ENV = nodeEnv
Page(nodeEnv) ==
  /\ pagelets \in PageletSets
  /\ connections = {}
  /\ conditional = <<>>
  /\ listeners = {}
  /\ enabled = <<>>
  /\ disabled = <<>>
  /\ calls = <<>>
  /\ env = envOf(nodeEnv)
  /\ sealed = sealsPage(envOf(nodeEnv))
  /\ extra = {}
  /\ last = NoLast

\* The page of a server that runs in production.
Init == Page("production")

\* The page in any environment.
InitAnyEnv == \E nodeEnv \in NodeEnvs : Page(nodeEnv)

\* The closure a call keeps for the callbacks that arrive later.
Closure(s) == [f \in (DOMAIN s) \ (PageFields \cup Observed) |-> s[f]]

\* page.configure(req, res)
Configure(req) ==
  /\ Len(calls) < MaxCalls
  /\ \E c \in {Len(calls) + 1} :
     \E out \in {configure(c, req, connections, conditional, listeners, enabled, disabled)} :
        /\ connections' = out.call.connections
        /\ conditional' = out.call.conditional
        /\ listeners' = out.call.listeners
        /\ enabled' = out.call.enabled
        /\ disabled' = out.call.disabled
        /\ calls' = Append(calls, Closure(out.call))
        /\ last' = [op |-> "configure", call |-> c, req |-> req,
                    accepted |-> out.call.accepted > 0, threw |-> out.call.threw,
                    before |-> ThisPage, atReset |-> out.page,
                    emitted |-> out.call.emitted, trace |-> out.trace]
  /\ UNCHANGED <<pagelets, seal>>

\* The callback of an asynchronous authorize check of call c arrives.
Settle(c, i) ==
  /\ c \in 1..Len(calls)
  /\ i \in calls[c].pending
  /\ \E out \in {done([calls[c] EXCEPT !.pending = @ \ {i}, !.settled = @ \cup {i},
                                          !.threw = "no"]
                          @@ ThisPage @@ [emitted |-> <<>>, trace |-> <<>>],
                        i, answer(pagelets[i], calls[c].authReq[i]))} :
        /\ connections' = out.connections
        /\ conditional' = out.conditional
        /\ listeners' = out.listeners
        /\ enabled' = out.enabled
        /\ disabled' = out.disabled
        /\ calls' = [calls EXCEPT ![c] = [Closure(out) EXCEPT !.threw = calls[c].threw]]
        /\ last' = [NoLast EXCEPT !.op = "settle",
                                  !.call = IF out.accepted > calls[c].accepted THEN c ELSE 0,
                                  !.accepted = out.accepted > calls[c].accepted,
                                  !.threw = out.threw,
                                  !.before = ThisPage,
                                  !.emitted = out.emitted]
  /\ UNCHANGED <<pagelets, seal>>

\* The renderer stores a real-time connection.
Connect(k) ==
  /\ k \notin connections
  /\ connections' = connections \cup {k}
  /\ last' = [NoLast EXCEPT !.op = "render"]
  /\ UNCHANGED <<pagelets, conditional, listeners, enabled, disabled, calls, seal>>

\* page.on(event, listener)
On(l) ==
  /\ l \notin listeners
  /\ listeners' = listeners \cup {l}
  /\ last' = [NoLast EXCEPT !.op = "render"]
  /\ UNCHANGED <<pagelets, connections, conditional, enabled, disabled, calls, seal>>

\* A conditional pagelet is pushed on page.conditional.
Conditional(p) ==
  /\ p \notin Range(conditional)
  /\ conditional' = Append(conditional, p)
  /\ last' = [NoLast EXCEPT !.op = "render"]
  /\ UNCHANGED <<pagelets, connections, listeners, enabled, disabled, calls, seal>>

\* page[f] = value for a field f the constructor did not declare. On a sealed
\* page the field is not added (a TypeError in strict code, ignored in sloppy
\* code).
AddField(f) ==
  /\ f \notin Declared \cup extra
  /\ extra' = IF sealed THEN extra ELSE extra \cup {f}
  /\ last' = [NoLast EXCEPT !.op = "extend", !.threw = IF sealed THEN "sealed" ELSE "no"]
  /\ UNCHANGED <<pagelets, connections, conditional, listeners, enabled, disabled,
                 calls, env, sealed>>

Next ==
  \/ \E req \in Requests : Configure(req)
  \/ \E c \in 1..MaxCalls, i \in 1..MaxPagelets : Settle(c, i)
  \/ \E k \in ConnIds : Connect(k)
  \/ \E l \in ListenerIds : On(l)
  \/ \E p \in CondIds : Conditional(p)

Spec == Init /\ [][Next]_vars

\* The construction of a page in any environment and the use of its fields.
NextSeal ==
  \/ \E f \in NewFields : AddField(f)
  \/ \E k \in ConnIds : Connect(k)
  \/ \E p \in CondIds : Conditional(p)

SpecSeal == InitAnyEnv /\ [][NextSeal]_vars

TypeOK ==
  /\ pagelets \in PageletSets
  /\ connections \subseteq ConnIds
  /\ listeners \subseteq ListenerIds
  /\ Len(calls) <= MaxCalls

\* ------------------------------------------------------------- properties
\* The last step ran acceptance: the discover call last.call has completed.
Completed == last.accepted

\* The last step was a call of configure, which has returned or thrown.
Configured == last.op = "configure"

\* The pagelet instances of the discover call of the last step.
Allocated == allocate(last.call, Len(pagelets))

\* Pagelet i has an authorize function that calls back.
Answers(i) == pagelets[i].timing \in {"sync", "async"}

\* What the check of pagelet i yields for request r: true without a check.
Yields(i, r) ==
  \/ pagelets[i].timing = "none"
  \/ Answers(i) /\ answer(pagelets[i], r)

\* C1: once discover has completed, every pagelet instance of the call is in
\* exactly one of page.enabled and page.disabled.
C1_Partition ==
  Completed =>
    /\ Range(enabled) \cup Range(disabled) = Range(Allocated)
    /\ Range(enabled) \cap Range(disabled) = {}

\* C2: once discover has completed, a pagelet whose check resolved or will
\* resolve to false is in page.disabled and not in page.enabled.
C2_FalseIsDisabled ==
  Completed =>
    \A i \in 1..Len(pagelets) :
      (Answers(i) /\ ~answer(pagelets[i], calls[last.call].authReq[i])) =>
        /\ Instance(last.call, i) \in Range(disabled)
        /\ Instance(last.call, i) \notin Range(enabled)

\* C3: when a configure call on a page with a throwing check has ended, every
\* other pagelet has been evaluated, and once no check is outstanding
\* discover has completed with the throwing pagelet in page.disabled and the
\* others classified by their own checks.
C3_ThrowIsContained ==
  Configured =>
    \A i \in 1..Len(pagelets) :
      pagelets[i].timing = "throws" =>
        /\ \A j \in 1..Len(pagelets) : j \in calls[last.call].evaluated
        /\ calls[last.call].pending = {} =>
             /\ Completed
             /\ Instance(last.call, i) \in Range(disabled)
             /\ \A j \in (1..Len(pagelets)) \ {i} :
                  pagelets[j].timing # "throws" =>
                    (Instance(last.call, j) \in Range(enabled) <=> Yields(j, last.req))

\* C4: no step ends with the failure of an authorize check thrown to the
\* caller of configure.
C4_NoThrowEscapes == last.threw # "authorize"

\* C5: at the end of the reset phase of every configure call connections,
\* conditional, enabled and disabled are empty.
C5_EmptyAfterReset ==
  Configured =>
    /\ last.atReset.connections = {}
    /\ last.atReset.conditional = <<>>
    /\ last.atReset.enabled = <<>>
    /\ last.atReset.disabled = <<>>

\* C6: every authorize check invoked during a configure call received the
\* request of that call.
C6_RequestHandedOn ==
  Configured =>
    \A i \in calls[last.call].evaluated :
      pagelets[i].timing # "none" => calls[last.call].authReq[i] = last.req

\* C7: when acceptance runs, every authorization check of the call has
\* settled.
C7_FanInBarrier ==
  Completed =>
    \A i \in 1..Len(pagelets) :
      pagelets[i].timing # "none" => i \in calls[last.call].settled

\* C8: when configure has returned, connections has no entries and no
\* listener registered before the call is attached.
C8_ResetDropsConnectionsAndListeners ==
  (Configured /\ last.threw = "no") =>
    /\ connections = {}
    /\ listeners \cap last.before.listeners = {}

C8_Witness ==
  /\ Configured
  /\ last.threw = "no"
  /\ last.before.connections # {}
  /\ last.before.listeners # {}

\* C9: once discover has completed, every pagelet without an authorize
\* function is in page.enabled.
C9_NoCheckIsEnabled ==
  Completed =>
    \A i \in 1..Len(pagelets) :
      pagelets[i].timing = "none" => Instance(last.call, i) \in Range(enabled)

C9_Witness ==
  /\ Completed
  /\ \E i, j \in 1..Len(pagelets) :
       /\ pagelets[i].timing = "none"
       /\ Answers(j)
       /\ ~answer(pagelets[j], calls[last.call].authReq[j])
       /\ Instance(last.call, i) \in Range(enabled)

\* C10: once discover has completed, page.enabled is the pagelets whose check
\* yields true (or that have none) and page.disabled the others, both in
\* registration order.
C10_StablePartition ==
  Completed =>
    /\ enabled = SelectSeq(Allocated, LAMBDA p : Yields(p[2], last.req))
    /\ disabled = SelectSeq(Allocated, LAMBDA p : ~Yields(p[2], last.req))

\* The pagelet factories of a list of pagelet instances, 0 for a hole.
Factories(arr) == [k \in 1..Len(arr) |-> arr[k][2]]

\* C11: a configure call that follows another leaves the same pagelet
\* factories in page.enabled and in page.disabled as the call before it left.
C11_SamePartitionAgain ==
  (Configured /\ last.call > 1) =>
    /\ Factories(enabled) = Factories(last.before.enabled)
    /\ Factories(disabled) = Factories(last.before.disabled)

C11_Witness ==
  /\ Configured
  /\ last.call > 1
  /\ Completed
  /\ Len(enabled) > 1
  /\ disabled # <<>>

\* C12: in development mode the page is sealed and a field the constructor
\* did not declare is never added; in any other mode the page is not sealed
\* and an attempt to add such a field adds it.
C12_SealedInDevelopmentOnly ==
  /\ env = "development" => (sealed /\ extra = {})
  /\ env # "development" =>
       /\ ~sealed
       /\ last.op = "extend" => (last.threw = "no" /\ extra # {})

C12_Witness ==
  /\ env = "development"
  /\ last.op = "extend"
  /\ last.threw = "sealed"
  /\ extra = {}

\* C13: every configure call begins with its reset phase, which is not
\* entered again, and ends with return this.
C13_ResetDiscoverReturn ==
  Configured =>
    /\ last.trace[1] = Step("reset", 0)
    /\ \A k \in 2..Len(last.trace) : last.trace[k][1] # "reset"
    /\ last.trace[Len(last.trace)] = Step("return", 0)

\* C14: every discover call whose checks have all settled has run acceptance
\* exactly once, no call runs it more often, and the callback of a check that
\* settles later leaves page.enabled and page.disabled as they are.
C14_AssignedExactlyOnce ==
  /\ \A c \in 1..Len(calls) :
       /\ calls[c].accepted <= 1
       /\ calls[c].pending = {} => calls[c].accepted = 1
  /\ last.op = "settle" =>
       /\ ~last.accepted
       /\ enabled = last.before.enabled
       /\ disabled = last.before.disabled

\* C15: the filter's callback is called at most once for a pagelet, and
\* exactly once when no check of the call is outstanding.
C15_DoneOncePerPagelet ==
  \A c \in 1..Len(calls) :
    \A i \in 1..Len(pagelets) :
      /\ calls[c].doneCalls[i] <= 1
      /\ calls[c].pending = {} => calls[c].doneCalls[i] = 1

\* C16: a discover call, in configure and in the callbacks that arrive
\* later, emits no event and leaves connections, conditional and the
\* listeners as they were when it began.
C16_DiscoverFrame ==
  /\ Configured =>
       /\ connections = last.atReset.connections
       /\ conditional = last.atReset.conditional
       /\ listeners = last.atReset.listeners
       /\ last.emitted = <<>>
  /\ last.op = "settle" =>
       /\ connections = last.before.connections
       /\ conditional = last.before.conditional
       /\ listeners = last.before.listeners
       /\ last.emitted = <<>>

C16_Witness ==
  /\ Configured
  /\ Completed
  /\ Len(pagelets) > 1
  /\ enabled # last.atReset.enabled
  /\ disabled # last.atReset.disabled
  /\ last.before.listeners # {}

\* C17: in every discover call the steps after the reset are: allocate and
\* bind for factory 1, allocate and bind for factory 2 and so on; no other
\* step allocates or binds, and every authorize comes after them.
C17_AllocateThenAuthorize ==
  Configured =>
    /\ Len(last.trace) > 2 * Len(pagelets)
    /\ \A i \in 1..Len(pagelets) :
         /\ last.trace[2 * i] = Step("alloc", i)
         /\ last.trace[2 * i + 1] = Step("bind", i)
    /\ \A k \in 1..Len(last.trace) :
         /\ last.trace[k][1] \in {"alloc", "bind"} => k \in 2..(2 * Len(pagelets) + 1)
         /\ last.trace[k][1] = "authorize" => k > 2 * Len(pagelets) + 1

C17_Witness ==
  /\ Configured
  /\ Len(pagelets) > 1
  /\ \E k \in 1..Len(last.trace) : last.trace[k] = Step("authorize", 2)
====
